---- MODULE Spec2Model ----
(***************************************************************************)
(* A model of pymarc/reader.py: MARCReader.__next__ framing length-prefixed *)
(* MARC21 records off a sequential byte stream, decoding them as UTF-8 and *)
(* handing them to the Record builder.                                     *)
(*                                                                         *)
(* Bytes are the integers 0..255, a bytes object is a sequence of them, a   *)
(* str is a sequence of code points.  Library calls made by the code       *)
(* (read, int, bytes.decode) are modelled by what CPython 3.6+ does.        *)
(***************************************************************************)
EXTENDS Integers, Sequences, FiniteSets, TLC

VARIABLES
    data,               \* the bytes behind self.byte_stream
    kind,               \* the type of self.byte_stream: "BufferedReader" or "BytesIO"
    pos,                \* the cursor of self.byte_stream (bytes consumed so far)
    utf8_handling,      \* self.utf8_handling
    hide_utf8_warnings, \* self.hide_utf8_warnings
    calls,              \* number of __next__ calls made
    outcome,            \* how the last __next__ call ended
    first5,             \* local first5 of the last call
    length,             \* local length of the last call: [ok, val] of int(first5)
    chunk,              \* the raw bytes first5 + chunk of the last call (line 62)
    consumed,           \* per call that read bytes: the bytes it took off the stream
    builderArgs,        \* the arguments of every Record(...) invocation, in order
    nyielded,           \* number of calls that returned normally
    diagnostics,        \* what the last call logged or printed
    kwargs,             \* the keyword arguments MARCReader(...) was called with
    pc,                 \* where the reader is in its life: a line of __init__, "ready", ...
    target,             \* what kind of object marc_target is
    orig_open,          \* marc_target is a handle and is open
    stream,             \* self.byte_stream: "unset", "open" or "closed"
    b_kind,             \* the type of the handle of a second reader run beside this one
    b_pos,              \* the cursor of the second reader's handle
    b_outcome,          \* how the second reader's last call ended
    b_chunk,            \* what the second reader last passed to Record
    m_files,            \* map_records: the sources *files
    m_idx,              \* map_records: index of the source being read
    m_pc,               \* map_records: position in the loop
    m_item,             \* map_records: the item map() holds for f
    m_yielded,          \* map_records: [src, item] for every item a reader yielded
    m_fcalls,           \* map_records: [src, item] for every call of f
    m_results,          \* map_records: the list built by list(map(...)) for this source
    m_return            \* map_records: what the call returned, "unset" until it does

readerVars == <<data, kind, pos, utf8_handling, hide_utf8_warnings, calls, outcome,
                first5, length, chunk, consumed, builderArgs, nyielded, diagnostics>>

lifeVars == <<kwargs, pc, target, orig_open, stream>>

pairVars == <<b_kind, b_pos, b_outcome, b_chunk>>

mapVars == <<m_files, m_idx, m_pc, m_item, m_yielded, m_fcalls, m_results, m_return>>

vars == <<readerVars, lifeVars, pairVars, mapVars>>

----------------------------------------------------------------------------
(* Bounds of the model *)

MaxRecords == 2     \* well-formed records at the head of an input stream
MaxCalls == 4       \* __next__ calls per reader

----------------------------------------------------------------------------
(* Byte helpers *)

Digits == 48..57
Whitespace == {9, 10, 11, 12, 13, 32}

RECURSIVE Flatten(_)
Flatten(ss) == IF ss = <<>> THEN <<>> ELSE Head(ss) \o Flatten(Tail(ss))

Min(a, b) == IF a <= b THEN a ELSE b

----------------------------------------------------------------------------
(* self.byte_stream.read(n): io.BufferedReader (a handle passed in, or the  *)
(* result of open(name, 'rb')) and io.BytesIO.  Both return at most n bytes *)
(* from the cursor and advance it by what they return; a short or empty     *)
(* result means the end of the stream.  read(-1) returns everything left;   *)
(* any other negative size returns everything left on a BytesIO and raises  *)
(* ValueError on a BufferedReader, leaving the cursor alone.                *)

ReadRewind(k, d, p, n) ==
    \* a stream that returns nothing at its end and then starts over
    IF n >= 0 /\ p >= Len(d)
    THEN [raised |-> FALSE, bytes |-> <<>>, pos |-> 0]
    ELSE IF n < 0
    THEN IF n = -1 \/ k = "BytesIO"
         THEN [raised |-> FALSE, bytes |-> SubSeq(d, p + 1, Len(d)), pos |-> Len(d)]
         ELSE [raised |-> TRUE, bytes |-> <<>>, pos |-> p]
    ELSE [raised |-> FALSE,
          bytes |-> SubSeq(d, p + 1, Min(p + n, Len(d))),
          pos |-> Min(p + n, Len(d))]

Read(k, d, p, n) ==
    IF n < 0
    THEN IF n = -1 \/ k = "BytesIO"
         THEN [raised |-> FALSE, bytes |-> SubSeq(d, p + 1, Len(d)), pos |-> Len(d)]
         ELSE [raised |-> TRUE, bytes |-> <<>>, pos |-> p]
    ELSE [raised |-> FALSE,
          bytes |-> SubSeq(d, p + 1, Min(p + n, Len(d))),
          pos |-> Min(p + n, Len(d))]

----------------------------------------------------------------------------
(* int(first5) on a bytes object, base 10: ASCII whitespace is stripped at  *)
(* both ends, one sign is allowed, then digits, where single underscores    *)
(* may stand between digits.  Anything else raises ValueError.              *)

RECURSIVE LStrip(_)
LStrip(b) == IF b # <<>> /\ Head(b) \in Whitespace THEN LStrip(Tail(b)) ELSE b

RECURSIVE RStrip(_)
RStrip(b) ==
    IF b # <<>> /\ b[Len(b)] \in Whitespace THEN RStrip(SubSeq(b, 1, Len(b) - 1)) ELSE b

IntLiteralBody(s) ==
    /\ s # <<>>
    /\ s[1] \in Digits
    /\ s[Len(s)] \in Digits
    /\ \A i \in 1..Len(s) : s[i] \in Digits \cup {95}
    /\ \A i \in 1..(Len(s) - 1) : ~(s[i] = 95 /\ s[i + 1] = 95)

RECURSIVE DigitsValue(_, _)
DigitsValue(s, acc) ==
    IF s = <<>> THEN acc
    ELSE IF Head(s) = 95 THEN DigitsValue(Tail(s), acc)
    ELSE DigitsValue(Tail(s), 10 * acc + (Head(s) - 48))

ParseInt(b) ==
    LET t == RStrip(LStrip(b))
        signed == t # <<>> /\ Head(t) \in {43, 45}
        body == IF signed THEN Tail(t) ELSE t
    IN  IF IntLiteralBody(body)
        THEN [ok |-> TRUE,
              val |-> IF signed /\ Head(t) = 45
                      THEN 0 - DigitsValue(body, 0) ELSE DigitsValue(body, 0)]
        ELSE [ok |-> FALSE, val |-> 0]

----------------------------------------------------------------------------
(* bytes.decode(encoding='utf-8', errors=...).  Utf8Step looks at the       *)
(* sequence starting at b[i]: n is the number of bytes of a well-formed     *)
(* sequence (valid) or of the maximal ill-formed prefix the error handler   *)
(* is called on (not valid); cp is the decoded code point.                  *)

IsCont(b, i, lo, hi) == i <= Len(b) /\ b[i] >= lo /\ b[i] <= hi

Utf8Step(b, i) ==
    LET b0 == b[i]
        lo2 == IF b0 = 224 THEN 160 ELSE IF b0 = 240 THEN 144 ELSE 128
        hi2 == IF b0 = 237 THEN 159 ELSE IF b0 = 244 THEN 143 ELSE 191
    IN  IF b0 < 128 THEN [valid |-> TRUE, n |-> 1, cp |-> b0]
        ELSE IF b0 >= 194 /\ b0 <= 223
        THEN IF IsCont(b, i + 1, 128, 191)
             THEN [valid |-> TRUE, n |-> 2, cp |-> (b0 - 192) * 64 + (b[i + 1] - 128)]
             ELSE [valid |-> FALSE, n |-> 1, cp |-> 0]
        ELSE IF b0 >= 224 /\ b0 <= 239
        THEN IF ~IsCont(b, i + 1, lo2, hi2) THEN [valid |-> FALSE, n |-> 1, cp |-> 0]
             ELSE IF ~IsCont(b, i + 2, 128, 191) THEN [valid |-> FALSE, n |-> 2, cp |-> 0]
             ELSE [valid |-> TRUE, n |-> 3,
                   cp |-> (b0 - 224) * 4096 + (b[i + 1] - 128) * 64 + (b[i + 2] - 128)]
        ELSE IF b0 >= 240 /\ b0 <= 244
        THEN IF ~IsCont(b, i + 1, lo2, hi2) THEN [valid |-> FALSE, n |-> 1, cp |-> 0]
             ELSE IF ~IsCont(b, i + 2, 128, 191) THEN [valid |-> FALSE, n |-> 2, cp |-> 0]
             ELSE IF ~IsCont(b, i + 3, 128, 191) THEN [valid |-> FALSE, n |-> 3, cp |-> 0]
             ELSE [valid |-> TRUE, n |-> 4,
                   cp |-> (b0 - 240) * 262144 + (b[i + 1] - 128) * 4096
                          + (b[i + 2] - 128) * 64 + (b[i + 3] - 128)]
        ELSE [valid |-> FALSE, n |-> 1, cp |-> 0]

(* The error handlers: 'strict' raises UnicodeDecodeError, 'replace' puts   *)
(* U+FFFD, 'ignore' drops the bytes, and 'xmlcharrefreplace', an encoding   *)
(* handler, raises TypeError when called on a decoding error.  A handler is *)
(* looked at only when an ill-formed sequence is met.                       *)

RECURSIVE DecodeFrom(_, _, _, _)
DecodeFrom(b, i, errors, acc) ==
    IF i > Len(b) THEN [err |-> "none", text |-> acc]
    ELSE LET s == Utf8Step(b, i)
         IN  IF s.valid THEN DecodeFrom(b, i + s.n, errors, Append(acc, s.cp))
             ELSE IF errors = "replace" THEN DecodeFrom(b, i + s.n, errors, Append(acc, 65533))
             ELSE IF errors = "ignore" THEN DecodeFrom(b, i + s.n, errors, acc)
             ELSE IF errors = "xmlcharrefreplace" THEN [err |-> "TypeError", text |-> <<>>]
             ELSE [err |-> "UnicodeDecodeError", text |-> <<>>]

Decode(b, errors) == DecodeFrom(b, 1, errors, <<>>)

----------------------------------------------------------------------------
(* The steps of MARCReader.__next__ *)

PrefixLen == 5

NoLength == [ok |-> FALSE, val |-> 0]

PrefixOutcomeShortIsEnd(f5) ==
    \* any read shorter than the prefix taken for the end of the stream
    IF Len(f5) < PrefixLen THEN "StopIteration" ELSE "proceed"

\* lines 56-59: what the read of the length prefix decides
PrefixOutcome(f5) ==
    IF f5 = <<>> THEN "StopIteration"
    ELSE IF Len(f5) < PrefixLen THEN "RecordLengthInvalid"
    ELSE "proceed"

RemainderSizeWhole(len) == len   \* the prefix counted twice

\* line 61: the size asked of the second read
RemainderSize(len) == len - PrefixLen

JoinChunkNoPrefix(f5, rest) == rest   \* the prefix left out of the record

\* line 62: the raw record buffer
JoinChunk(f5, rest) == f5 \o rest

\* lines 63-69: the decoding try block.  A failure is logged and leaves chunk
\* the bytes object it was.
DecodeChunk(raw, errors) ==
    LET r == Decode(raw, errors)
    IN  IF r.err = "none"
        THEN [chunk |-> [type |-> "str", val |-> r.text], diag |-> <<>>]
        ELSE IF r.err = "TypeError"
        THEN [chunk |-> [type |-> "bytes", val |-> raw],
              diag |-> <<"logging.error: TypeError chunk type">>]
        ELSE [chunk |-> [type |-> "bytes", val |-> raw],
              diag |-> <<"logging.error: Cannot iterate">>]

\* The external builder pymarc.Record(chunk, hide_utf8_warnings, utf8_handling):
\* it returns a record or raises; which one is the builder's choice.
Record(c, hide, handling, accepted) ==
    IF accepted THEN "Record" ELSE "ConstructionError"

ReturnOutcomeStops(built) ==
    \* a failed construction ending the iteration
    IF built = "Record"
    THEN [outcome |-> "Record", diag |-> <<>>]
    ELSE [outcome |-> "StopIteration", diag |-> <<"traceback.print_exc">>]

\* lines 70-78: the construction try block.  A record is returned; any
\* exception is printed to stderr and the method falls off its end.
ReturnOutcome(built) ==
    IF built = "Record"
    THEN [outcome |-> "Record", diag |-> <<>>]
    ELSE [outcome |-> "None", diag |-> <<"traceback.print_exc">>]

DecodeErrorsQuiet(handling, hide) ==
    \* warnings hidden by decoding leniently
    IF hide THEN "ignore" ELSE handling

\* line 65: the error handler the decoding runs under
DecodeErrors(handling, hide) == handling

\* lines 54-78 as a function of the handle (k, d, p), the policy and the
\* builder's choice
NextResultOf(k, d, p, handling, hide, accepted) ==
    LET r5 == Read(k, d, p, PrefixLen)
        f5 == r5.bytes
        pre == PrefixOutcome(f5)
        len == ParseInt(f5)
        rr == Read(k, d, r5.pos, RemainderSize(len.val))
        raw == JoinChunk(f5, rr.bytes)
        dec == DecodeChunk(raw, DecodeErrors(handling, hide))
        args == [chunk |-> dec.chunk, hide_utf8_warnings |-> hide,
                 utf8_handling |-> handling]
        ret == ReturnOutcome(Record(dec.chunk, hide, handling, accepted))
    IN  IF pre # "proceed"
        THEN [outcome |-> pre, pos |-> r5.pos, first5 |-> f5, length |-> NoLength,
              chunk |-> <<>>, took |-> f5, args |-> <<>>, diag |-> <<>>]
        ELSE IF ~len.ok
        THEN [outcome |-> "ValueError", pos |-> r5.pos, first5 |-> f5, length |-> NoLength,
              chunk |-> <<>>, took |-> f5, args |-> <<>>, diag |-> <<>>]
        ELSE IF rr.raised
        THEN [outcome |-> "ValueError", pos |-> rr.pos, first5 |-> f5, length |-> len,
              chunk |-> <<>>, took |-> f5, args |-> <<>>, diag |-> <<>>]
        ELSE [outcome |-> ret.outcome, pos |-> rr.pos, first5 |-> f5, length |-> len,
              chunk |-> raw, took |-> f5 \o rr.bytes, args |-> <<args>>, diag |-> dec.diag \o ret.diag]

NextResult(accepted) ==
    NextResultOf(kind, data, pos, utf8_handling, hide_utf8_warnings, accepted)

\* one __next__ call on the reader
ReaderStep(accepted) ==
    /\ calls < MaxCalls
    /\ LET r == NextResult(accepted)
       IN  /\ outcome' = r.outcome
           /\ pos' = r.pos
           /\ first5' = r.first5
           /\ length' = r.length
           /\ chunk' = r.chunk
           /\ consumed' = IF r.took = <<>> THEN consumed ELSE Append(consumed, r.took)
           /\ builderArgs' = builderArgs \o r.args
           /\ nyielded' = IF r.outcome \in {"Record", "None"} THEN nyielded + 1 ELSE nyielded
           /\ diagnostics' = r.diag
    /\ calls' = calls + 1
    /\ UNCHANGED <<data, kind, utf8_handling, hide_utf8_warnings>>

MARCReader_next(accepted) ==
    /\ pc = "ready"
    /\ m_pc = "idle"
    /\ ReaderStep(accepted)
    /\ UNCHANGED <<lifeVars, pairVars, mapVars>>

----------------------------------------------------------------------------
(* Input streams.  A stream is up to MaxRecords well-formed records         *)
(* followed by an optional malformed piece and an optional further record.  *)

Digit(L, d) == 48 + ((L \div d) % 10)

Prefix5(L) == <<Digit(L, 10000), Digit(L, 1000), Digit(L, 100), Digit(L, 10), Digit(L, 1)>>

Rec(payload) == Prefix5(PrefixLen + Len(payload)) \o payload

Payloads ==
    { <<>>,                 \* a record that is its prefix alone
      <<65>>,               \* "A"
      <<195, 169>>,         \* U+00E9 in UTF-8
      <<226, 130>> }        \* U+20AC cut short

WellFormedRecords == {Rec(p) : p \in Payloads}

Malformed ==
    { <<48, 48, 48>>, <<48, 48, 48, 48>>,           \* the stream ends inside a prefix
      <<48, 48, 48, 48, 65>>,                       \* "0000A"
      <<32, 48, 48, 48, 54, 65>>,                   \* " 0006" "A"
      <<43, 48, 48, 48, 54, 65>>,                   \* "+0006" "A"
      <<48, 95, 48, 48, 54, 65>>,                   \* "0_006" "A"
      <<45, 48, 48, 48, 54, 65>>,                   \* "-0006" "A"
      <<48, 48, 48, 48, 52, 65>>,                   \* "00004" "A"
      <<48, 48, 48, 48, 48>>,                       \* "00000"
      <<48, 48, 48, 48, 57, 65>> }                  \* "00009" "A": 3 bytes missing

\* malformed pieces after which the stream goes on with one more record
Resumed ==
    { <<48, 48, 48>>, <<48, 48, 48, 48, 65>>, <<45, 48, 48, 48, 54, 65>>,
      <<48, 48, 48, 48, 52, 65>>, <<48, 48, 48, 48, 57, 65>> }

Tails == {<<>>} \cup Malformed \cup {m \o Rec(<<65>>) : m \in Resumed}

SeqsUpTo(S, n) == UNION {[1..k -> S] : k \in 0..n}

Streams == {Flatten(w) \o t : w \in SeqsUpTo(WellFormedRecords, MaxRecords), t \in Tails}

Handlings == {"strict", "replace", "xmlcharrefreplace", "ignore"}

\* MARCReader(marc_target, **kwargs): both keywords given, one of them, or none
KwargsSet ==
    {[has_utf8 |-> TRUE, utf8 |-> u, has_hide |-> TRUE, hide |-> h] :
        u \in Handlings, h \in BOOLEAN}
    \cup {[has_utf8 |-> FALSE, utf8 |-> "", has_hide |-> TRUE, hide |-> TRUE],
          [has_utf8 |-> TRUE, utf8 |-> "replace", has_hide |-> FALSE, hide |-> FALSE],
          [has_utf8 |-> FALSE, utf8 |-> "", has_hide |-> FALSE, hide |-> FALSE]}

PolicyHandlingLenient(kw) == IF kw.has_utf8 THEN kw.utf8 ELSE "replace"

\* lines 29-32
PolicyHandling(kw) == IF kw.has_utf8 THEN kw.utf8 ELSE "strict"

\* lines 33-36
PolicyHide(kw) == IF kw.has_hide THEN kw.hide ELSE FALSE

IsAscii(b) == \A i \in 1..Len(b) : b[i] < 128

\* lines 28-36: the policy the constructor fixes
InitPolicy ==
    /\ kwargs \in KwargsSet
    /\ utf8_handling = PolicyHandling(kwargs)
    /\ hide_utf8_warnings = PolicyHide(kwargs)

\* a reader that has made no call yet
ReaderFresh ==
    /\ calls = 0
    /\ outcome = "NotCalled"
    /\ first5 = <<>>
    /\ length = NoLength
    /\ chunk = <<>>
    /\ consumed = <<>>
    /\ builderArgs = <<>>
    /\ nyielded = 0
    /\ diagnostics = <<>>

NoChunk == [type |-> "none", val |-> <<>>]

PairIdle == b_kind = kind /\ b_pos = 0 /\ b_outcome = "NotCalled" /\ b_chunk = NoChunk

MapIdle ==
    /\ m_files = <<>>
    /\ m_idx = 0
    /\ m_pc = "idle"
    /\ m_item = <<>>
    /\ m_yielded = <<>>
    /\ m_fcalls = <<>>
    /\ m_results = <<>>
    /\ m_return = "unset"

\* A constructed reader: over a binary handle (line 39 or 44), or over the
\* BytesIO of an ASCII-encoded text payload (lines 49-51).
Init ==
    /\ InitPolicy
    /\ data \in Streams
    /\ kind \in {"BufferedReader", "BytesIO"}
    /\ kind = "BytesIO" => IsAscii(data)
    /\ pos = 0
    /\ target = IF kind = "BytesIO" THEN "str" ELSE "BufferedReader"
    /\ orig_open = (kind = "BufferedReader")
    /\ stream = "open"
    /\ pc = "ready"
    /\ ReaderFresh
    /\ PairIdle
    /\ MapIdle

Next == \E accepted \in BOOLEAN : MARCReader_next(accepted)

Spec == Init /\ [][Next]_vars

----------------------------------------------------------------------------
(* The life of a reader: MARCReader.__init__ from line 37 on, statement by  *)
(* statement where it handles two file handles, then __next__ calls, then   *)
(* the caller letting go of the reader.                                     *)
(*                                                                          *)
(* marc_target is one of                                                    *)
(*   "BufferedReader"   an open buffered binary handle                      *)
(*   "TextFile"         an open text-mode file: read, name (a path), buffer *)
(*   "BytesIO"          an in-memory stream: read, no name, no buffer       *)
(*   "TextOverBytesIO"  a TextIOWrapper over a BytesIO: read, buffer, and   *)
(*                      no name                                             *)
(*   "BufferOnly"       an object with a buffer attribute and no read       *)
(*   "str"              a text payload                                      *)
(*   "bytes"            a bytes payload                                     *)
(* data is what the target holds: bytes, or the code points of a str.       *)

Targets ==
    {"BufferedReader", "TextFile", "BytesIO", "TextOverBytesIO", "BufferOnly", "str", "bytes"}

HasRead(t) == t \in {"BufferedReader", "TextFile", "BytesIO", "TextOverBytesIO"}   \* line 37
IsBufferedReader(t) == t = "BufferedReader"                                        \* line 38
HasName(t) == t \in {"BufferedReader", "TextFile"}                                 \* line 42
HasBuffer(t) == t \in {"TextFile", "TextOverBytesIO", "BufferOnly"}                \* line 46
HasEncode(t) == t = "str"                                                          \* line 49
IsHandle(t) == t \notin {"str", "bytes"}

Failures == {"AttributeError", "OSError", "UnicodeEncodeError"}

RECURSIVE DecimalDigits(_)
DecimalDigits(n) ==
    IF n < 10 THEN <<48 + n>> ELSE Append(DecimalDigits(n \div 10), 48 + (n % 10))

\* lines 49-50: marc_target.encode(encoding='ascii', errors=self.utf8_handling)
RECURSIVE EncodeAsciiFrom(_, _, _)
EncodeAsciiFrom(text, errors, acc) ==
    IF text = <<>> THEN [ok |-> TRUE, bytes |-> acc]
    ELSE LET c == Head(text)
         IN  IF c < 128 THEN EncodeAsciiFrom(Tail(text), errors, Append(acc, c))
             ELSE IF errors = "replace" THEN EncodeAsciiFrom(Tail(text), errors, Append(acc, 63))
             ELSE IF errors = "ignore" THEN EncodeAsciiFrom(Tail(text), errors, acc)
             ELSE IF errors = "xmlcharrefreplace"
             THEN EncodeAsciiFrom(Tail(text), errors,
                                  acc \o <<38, 35>> \o DecimalDigits(c) \o <<59>>)
             ELSE [ok |-> FALSE, bytes |-> <<>>]

EncodeAscii(text, errors) == EncodeAsciiFrom(text, errors, <<>>)

\* lines 37-51 but for the closing and reopening of lines 43-44
Ctor_normalize ==
    /\ pc = "normalize"
    /\ IF HasRead(target)
       THEN IF IsBufferedReader(target)
            THEN /\ pc' = "ready"
                 /\ kind' = "BufferedReader"
                 /\ stream' = "open"
                 /\ UNCHANGED <<data, pos>>
            ELSE IF HasName(target)
            THEN pc' = "close" /\ UNCHANGED <<data, pos, kind, stream>>
            ELSE pc' = "AttributeError" /\ UNCHANGED <<data, pos, kind, stream>>
       ELSE IF HasBuffer(target)
       THEN pc' = "AttributeError" /\ UNCHANGED <<data, pos, kind, stream>>
       ELSE IF HasEncode(target)
       THEN LET e == EncodeAscii(data, utf8_handling)
            IN  IF e.ok
                THEN /\ pc' = "ready"
                     /\ kind' = "BytesIO"
                     /\ stream' = "open"
                     /\ data' = e.bytes
                     /\ pos' = 0
                ELSE pc' = "UnicodeEncodeError" /\ UNCHANGED <<data, pos, kind, stream>>
       ELSE pc' = "AttributeError" /\ UNCHANGED <<data, pos, kind, stream>>
    /\ UNCHANGED <<utf8_handling, hide_utf8_warnings, calls, outcome, first5, length, chunk,
                   consumed, builderArgs, nyielded, diagnostics>>
    /\ UNCHANGED <<kwargs, target, orig_open, pairVars, mapVars>>

OrigOpenLeftOpen(o) == o   \* the original handle not closed

\* line 43: marc_target.close()
OrigOpenAfterClose(o) == FALSE

Ctor_close ==
    /\ pc = "close"
    /\ orig_open' = OrigOpenAfterClose(orig_open)
    /\ pc' = "reopen"
    /\ UNCHANGED <<readerVars, kwargs, target, stream, pairVars, mapVars>>

\* line 44: open(filehandle_name, 'rb'), which the file system lets succeed or not
Ctor_reopen(ok) ==
    /\ pc = "reopen"
    /\ IF ok
       THEN /\ pc' = "ready"
            /\ kind' = "BufferedReader"
            /\ stream' = "open"
            /\ pos' = 0
       ELSE pc' = "OSError" /\ UNCHANGED <<kind, stream, pos>>
    /\ UNCHANGED <<data, utf8_handling, hide_utf8_warnings, calls, outcome, first5, length,
                   chunk, consumed, builderArgs, nyielded, diagnostics>>
    /\ UNCHANGED <<kwargs, target, orig_open, pairVars, mapVars>>

\* The caller lets go of the reader.  MARCReader defines no close, __del__ or
\* __exit__: a handle the caller passed in stays as it is, a handle the reader
\* made is closed if and when the runtime finalizes it.
Discard(finalized) ==
    /\ pc = "ready"
    /\ pc' = "discarded"
    /\ stream' = IF ~IsBufferedReader(target) /\ finalized THEN "closed" ELSE stream
    /\ UNCHANGED <<readerVars, kwargs, target, orig_open, pairVars, mapVars>>

LifeStreams == Tails \cup WellFormedRecords

InitLife ==
    /\ InitPolicy
    /\ target \in Targets
    /\ data \in LifeStreams
    /\ pos \in (IF IsBufferedReader(target) /\ Len(data) > PrefixLen THEN {0, PrefixLen} ELSE {0})
    /\ kind = "unset"
    /\ orig_open = IsHandle(target)
    /\ stream = "unset"
    /\ pc = "normalize"
    /\ ReaderFresh
    /\ PairIdle
    /\ MapIdle

NextLife ==
    \/ Ctor_normalize
    \/ Ctor_close
    \/ \E ok \in BOOLEAN : Ctor_reopen(ok)
    \/ \E accepted \in BOOLEAN : MARCReader_next(accepted)
    \/ \E finalized \in BOOLEAN : Discard(finalized)

SpecLife == InitLife /\ [][NextLife]_vars

----------------------------------------------------------------------------
(* Two MARCReader instances over the same bytes, under the same             *)
(* utf8_handling, one with hide_utf8_warnings and one without, called in    *)
(* step.  The second reader's handle is a copy of the first's.  The Record  *)
(* builder's verdict on a text is the same for both: hide_utf8_warnings     *)
(* only suppresses its diagnostics.                                         *)

ChunkOf(r) == IF r.args = <<>> THEN NoChunk ELSE r.args[1].chunk

HidePair_next(accepted) ==
    /\ pc = "ready"
    /\ ReaderStep(accepted)
    /\ LET rb == NextResultOf(b_kind, data, b_pos, utf8_handling,
                              ~hide_utf8_warnings, accepted)
       IN  /\ b_kind' = b_kind
           /\ b_pos' = rb.pos
           /\ b_outcome' = rb.outcome
           /\ b_chunk' = ChunkOf(rb)
    /\ UNCHANGED <<lifeVars, mapVars>>

NextHide == \E accepted \in BOOLEAN : HidePair_next(accepted)

SpecHide == Init /\ [][NextHide]_vars

----------------------------------------------------------------------------
(* What the properties speak of *)

\* the wire format: five ASCII digits giving L >= 5, then L - 5 bytes
AllDigits(b) == \A i \in 1..Len(b) : b[i] \in Digits

DeclaredLength(b) == DigitsValue(SubSeq(b, 1, PrefixLen), 0)

NotARecord == <<-1>>

RECURSIVE RecordsOf(_)
\* the records of a stream, ending in NotARecord where it stops being well formed
RecordsOf(d) ==
    IF d = <<>> THEN <<>>
    ELSE IF /\ Len(d) >= PrefixLen
            /\ AllDigits(SubSeq(d, 1, PrefixLen))
            /\ DeclaredLength(d) >= PrefixLen
            /\ DeclaredLength(d) <= Len(d)
    THEN <<SubSeq(d, 1, DeclaredLength(d))>>
         \o RecordsOf(SubSeq(d, DeclaredLength(d) + 1, Len(d)))
    ELSE <<NotARecord>>

WellFormedStream(d) == \A i \in 1..Len(RecordsOf(d)) : RecordsOf(d)[i] # NotARecord

Returned == outcome \in {"Record", "None"}

\* the last call read a full prefix, parsed it and read a remainder
Framed == Len(first5) = PrefixLen /\ length.ok /\ outcome # "ValueError"

----------------------------------------------------------------------------
(* C1: on a stream of well-formed records every call that reads takes       *)
(* exactly the declared length of the record it frames, and the spans taken *)
(* by successive calls, put end to end, are the input up to the cursor:     *)
(* the whole input once the end of the stream is signalled.                 *)
C1_LosslessFraming ==
    WellFormedStream(data) =>
        /\ \A i \in 1..Len(consumed) : Len(consumed[i]) = DeclaredLength(consumed[i])
        /\ Flatten(consumed) = SubSeq(data, 1, pos)
        /\ Len(consumed) = Min(calls, Len(RecordsOf(data)))
        /\ outcome = "StopIteration" => Flatten(consumed) = data

C1_Witness ==
    /\ WellFormedStream(data)
    /\ Len(consumed) = 2
    /\ Len(consumed[1]) # Len(consumed[2])
    /\ outcome = "StopIteration"
    /\ Flatten(consumed) = data

(* C2: once a call has signalled the end of the stream, every later call    *)
(* signals it again.                                                        *)
C2_ExhaustedStays == [][outcome = "StopIteration" => outcome' = "StopIteration"]_vars

C2_Witness ==
    /\ outcome = "StopIteration"
    /\ consumed # <<>>
    /\ calls >= Len(consumed) + 2
    /\ pos = Len(data)

(* C3: on a stream of n well-formed records the first n calls return, the   *)
(* i-th having handed the builder the i-th record of the stream and nothing *)
(* else, and every call after the n-th signals the end of the stream; with  *)
(* n = 0 the first call does.                                               *)
C3_RecordsInOrder ==
    WellFormedStream(data) =>
        LET recs == RecordsOf(data)
        IN  /\ nyielded = Min(calls, Len(recs))
            /\ Len(builderArgs) = nyielded
            /\ \A i \in 1..Len(builderArgs) :
                   builderArgs[i].chunk = DecodeChunk(recs[i], utf8_handling).chunk
            /\ (calls > Len(recs)) => outcome = "StopIteration"
            /\ (calls > 0 /\ calls <= Len(recs)) => Returned

C3_Witness ==
    /\ WellFormedStream(data)
    /\ Len(RecordsOf(data)) = 2
    /\ RecordsOf(data)[1] # RecordsOf(data)[2]
    /\ calls = 3
    /\ nyielded = 2
    /\ outcome = "StopIteration"

(* C4: a call whose prefix read returns 1 to 4 bytes raises                 *)
(* RecordLengthInvalid: it reads nothing more and invokes no builder.       *)
C4_ShortPrefixInvalid ==
    (Len(first5) >= 1 /\ Len(first5) < PrefixLen) =>
        /\ outcome = "RecordLengthInvalid"
        /\ chunk = <<>>
        /\ pos = Len(data)

C4_Witness ==
    /\ Len(first5) = 3
    /\ outcome = "RecordLengthInvalid"
    /\ builderArgs # <<>>

\* the last call parsed a length L and its second read came back short of L - 5 bytes
ShortRemainder == Framed /\ length.val >= PrefixLen /\ Len(chunk) < length.val

\* the raw record buffer of the last call is not well-formed UTF-8
InvalidUtf8(b) == Decode(b, "strict").err # "none"

LastBuilderArg == builderArgs[Len(builderArgs)]

(* C5: a call whose prefix parses to L while fewer than L - 5 bytes remain  *)
(* reports TruncatedRecord and does not return as if the record were        *)
(* complete.                                                                *)
C5_TruncatedReported == ShortRemainder => outcome = "TruncatedRecord"

(* C6: under 'strict', a call whose raw record buffer holds an invalid      *)
(* UTF-8 sequence reports DecodeError and does not hand the builder the     *)
(* undecoded bytes.                                                         *)
C6_StrictDecodeErrorReported ==
    (utf8_handling = "strict" /\ Framed /\ InvalidUtf8(chunk)) => outcome = "DecodeError"

(* C7: under 'replace', 'xmlcharrefreplace' and 'ignore' the decoding step  *)
(* succeeds on every raw record buffer: nothing is logged about decoding    *)
(* and the builder receives text.                                           *)
C7_LenientDecodeSucceeds ==
    (utf8_handling \in {"replace", "xmlcharrefreplace", "ignore"} /\ Framed) =>
        /\ Returned
        /\ LastBuilderArg.chunk.type = "str"
        /\ \A i \in 1..Len(diagnostics) : diagnostics[i] = "traceback.print_exc"

(* C8: a call whose five prefix bytes are not five ASCII digits raises      *)
(* RecordLengthInvalid and reads no remainder.                              *)
C8_NonDigitPrefixInvalid ==
    (Len(first5) = PrefixLen /\ ~AllDigits(first5)) =>
        /\ outcome = "RecordLengthInvalid"
        /\ chunk = <<>>

(* C9: the end of the stream is signalled only by a call whose prefix read  *)
(* returned nothing, with no unread byte left in the source; a call that    *)
(* logged a decoding or construction failure does not signal it.            *)
C9_EndOnlyAtEnd ==
    outcome = "StopIteration" =>
        /\ first5 = <<>>
        /\ pos = Len(data)
        /\ diagnostics = <<>>

C9_Witness ==
    /\ outcome = "StopIteration"
    /\ pos = Len(data)
    /\ builderArgs # <<>>
    /\ builderArgs[1].chunk.type = "bytes"

(* C10: a call returns a record, signals the end of the stream or raises;   *)
(* it never returns normally with None in place of a record.                *)
C10_NeverReturnsNone == outcome # "None"

Max(a, b) == IF a >= b THEN a ELSE b

\* the last call framed a record and its decoding or its construction failed
FailedAfterFraming == Framed /\ length.val >= PrefixLen /\ diagnostics # <<>>

(* C11: a call that frames a record whose L bytes are all in the stream and *)
(* then fails to decode or to construct it leaves the cursor L bytes past   *)
(* the record's start and returns; the call after it reads its prefix at    *)
(* the first byte that follows the record.                                  *)
C11_FailureKeepsFraming ==
    [][ /\ (FailedAfterFraming' /\ pos + length'.val <= Len(data)) =>
               /\ pos' = pos + length'.val
               /\ outcome' \in {"Record", "None"}
        /\ (FailedAfterFraming /\ Len(chunk) = length.val) =>
               first5' = SubSeq(data, pos + 1, Min(pos + PrefixLen, Len(data)))
      ]_vars

C11_Witness ==
    /\ WellFormedStream(data)
    /\ Len(RecordsOf(data)) = 2
    /\ Len(builderArgs) = 2
    /\ builderArgs[1].chunk.type = "bytes"
    /\ consumed[2] = RecordsOf(data)[2]
    /\ pos = Len(data)

(* C12: for every five-digit prefix L, also L < 5, a call takes the 5       *)
(* prefix bytes and at most max(L - 5, 0) more: never a byte beyond the     *)
(* declared end of the record.                                              *)
C12_NeverBeyondDeclaredEnd ==
    (Len(first5) = PrefixLen /\ AllDigits(first5)) =>
        Len(consumed[Len(consumed)])
            <= PrefixLen + Max(DeclaredLength(first5) - PrefixLen, 0)

\* what the last call of the reader passed to Record, if it got that far
LastChunk == IF Returned THEN LastBuilderArg.chunk ELSE NoChunk

(* C13: two readers over the same bytes and utf8_handling that differ only  *)
(* in hide_utf8_warnings have, after every call, the same cursor, the same  *)
(* outcome and the same text passed to the builder.                         *)
C13_HideChangesNothing ==
    /\ b_pos = pos
    /\ b_outcome = outcome
    /\ b_chunk = LastChunk

C13_Witness ==
    /\ calls >= 2
    /\ b_chunk.type = "bytes"
    /\ LastChunk.type = "bytes"
    /\ b_pos = pos
    /\ pos > 0

(* C14: with hide_utf8_warnings false every decode failure and every        *)
(* construction failure of a call emits a diagnostic; with it true a decode *)
(* failure emits none.                                                      *)
C14_DiagnosticsFollowHide ==
    /\ (~hide_utf8_warnings /\ Framed /\ (LastChunk.type = "bytes" \/ outcome = "None"))
           => diagnostics # <<>>
    /\ (hide_utf8_warnings /\ Framed)
           => \A i \in 1..Len(diagnostics) : diagnostics[i] = "traceback.print_exc"

(* C15: utf8_handling and hide_utf8_warnings are what the constructor was   *)
(* given, 'strict' and False where it was given nothing, whatever calls     *)
(* have been made since, and every Record invocation received these values. *)
C15_PolicyFixed ==
    /\ utf8_handling = (IF kwargs.has_utf8 THEN kwargs.utf8 ELSE "strict")
    /\ hide_utf8_warnings = (IF kwargs.has_hide THEN kwargs.hide ELSE FALSE)
    /\ \A i \in 1..Len(builderArgs) :
           /\ builderArgs[i].utf8_handling = utf8_handling
           /\ builderArgs[i].hide_utf8_warnings = hide_utf8_warnings

C15_Witness ==
    /\ ~kwargs.has_utf8
    /\ ~kwargs.has_hide
    /\ Len(builderArgs) >= 2
    /\ builderArgs[2].utf8_handling = "strict"
    /\ builderArgs[2].hide_utf8_warnings = FALSE

\* the constructor took the reopening path of lines 42-44
Reopening == HasRead(target) /\ ~IsBufferedReader(target) /\ HasName(target)

(* C16: when the constructor reopens a readable input that is not a         *)
(* BufferedReader, the original handle is closed before the binary handle   *)
(* is opened: the two are never open together, and after a failed reopen    *)
(* the original is closed.                                                  *)
C16_ClosedBeforeReopen ==
    Reopening =>
        /\ ~(orig_open /\ stream = "open")
        /\ pc \in {"reopen", "ready", "discarded", "OSError"} => ~orig_open

C16_Witness ==
    /\ Reopening
    /\ pc = "OSError"
    /\ ~orig_open
    /\ stream = "unset"

(* C17: construction yields a usable handle for every input with a read     *)
(* capability: a BufferedReader is kept with its cursor where it was, any   *)
(* other readable object is reopened by its path or, when it has an         *)
(* underlying buffer, wrapped, so that an in-memory stream with a buffer    *)
(* and no path still yields a handle over its bytes.                        *)
C17_ReadableYieldsHandle ==
    HasRead(target) =>
        /\ pc # "AttributeError"
        /\ (pc = "ready" /\ ~HasName(target)) => stream = "open"

(* C18: on every exit path of a reader's life (exhaustion, error, early     *)
(* abandonment) the handle the reader opened or was given ends up closed.   *)
C18_HandleReleased == pc = "discarded" => stream = "closed"

----------------------------------------------------------------------------
(* map_records(f, *files): for each source in turn a MARCReader is made     *)
(* over it with the default policy and map() draws its items one at a time, *)
(* calling f on each before asking the reader for the next.  The reader     *)
(* variables hold the reader of the source being read.                      *)

MaxSources == 2     \* sources passed to map_records

\* what a source holds: whole records, then possibly a piece that is none
MapData ==
    { <<>>, Rec(<<65>>), Rec(<<65>>) \o Rec(<<>>),
      <<48, 48, 48>>, Rec(<<65>>) \o <<48, 48, 48>> }

\* the sources: handles opened in binary or text mode, and in-memory streams
MapSources ==
    {[target |-> t, data |-> d] : t \in {"BufferedReader", "TextFile", "BytesIO"}, d \in MapData}

\* MARCReader(file): no keyword arguments
NoKwargs == [has_utf8 |-> FALSE, utf8 |-> "", has_hide |-> FALSE, hide |-> FALSE]

\* what the caller's f does with an item: returns a value or raises
FResults == {"value", "raise"}

MapCallsNone(fcalls, item) == fcalls   \* the item dropped without a call of f

\* line 177: map() calls f on the item the reader yielded
MapCalls(fcalls, item) == Append(fcalls, item)

\* line 176: the for statement takes the next source, or the function falls
\* off its end and returns None; line 177: MARCReader(file) begins
Map_loop ==
    /\ m_pc = "loop"
    /\ IF m_idx < Len(m_files)
       THEN LET file == m_files[m_idx + 1]
            IN  /\ m_idx' = m_idx + 1
                /\ m_pc' = "iter"
                /\ m_return' = m_return
                /\ target' = file.target
                /\ data' = file.data
                /\ pos' = 0
                /\ kwargs' = NoKwargs
                /\ utf8_handling' = PolicyHandling(NoKwargs)
                /\ hide_utf8_warnings' = PolicyHide(NoKwargs)
                /\ kind' = "unset"
                /\ stream' = "unset"
                /\ orig_open' = TRUE
                /\ pc' = "normalize"
                /\ calls' = 0
                /\ outcome' = "NotCalled"
                /\ first5' = <<>>
                /\ length' = NoLength
                /\ chunk' = <<>>
                /\ consumed' = <<>>
                /\ builderArgs' = <<>>
                /\ nyielded' = 0
                /\ diagnostics' = <<>>
       ELSE /\ m_pc' = "returned"
            /\ m_return' = "None"
            /\ UNCHANGED <<m_idx, readerVars, lifeVars>>
    /\ UNCHANGED <<m_files, m_item, m_yielded, m_fcalls, m_results, pairVars>>

\* line 177: the constructor raised and map_records lets it through
Map_ctor_raised ==
    /\ m_pc = "iter"
    /\ pc \in Failures
    /\ m_pc' = "raised"
    /\ UNCHANGED <<readerVars, lifeVars, pairVars, m_files, m_idx, m_item, m_yielded,
                   m_fcalls, m_results, m_return>>

\* line 177: map() asks the reader for its next item
Map_next(accepted) ==
    /\ m_pc = "iter"
    /\ pc = "ready"
    /\ ReaderStep(accepted)
    /\ LET r == NextResult(accepted)
           item == [src |-> m_idx, n |-> nyielded + 1, value |-> r.outcome, chunk |-> r.chunk]
       IN  IF r.outcome \in {"Record", "None"}
           THEN /\ m_item' = <<item>>
                /\ m_yielded' = Append(m_yielded, item)
                /\ m_pc' = "apply"
                /\ m_results' = m_results
           ELSE IF r.outcome = "StopIteration"
           THEN /\ m_pc' = "loop"
                /\ m_results' = <<>>      \* the list is built and dropped
                /\ UNCHANGED <<m_item, m_yielded>>
           ELSE /\ m_pc' = "raised"
                /\ UNCHANGED <<m_item, m_yielded, m_results>>
    /\ UNCHANGED <<lifeVars, pairVars, m_files, m_idx, m_fcalls, m_return>>

\* line 177: map() calls f on the item; list() keeps what f returns
Map_apply(res) ==
    /\ m_pc = "apply"
    /\ m_fcalls' = MapCalls(m_fcalls, m_item[1])
    /\ m_item' = <<>>
    /\ IF res = "raise"
       THEN m_pc' = "raised" /\ m_results' = m_results
       ELSE m_pc' = "iter" /\ m_results' = Append(m_results, res)
    /\ UNCHANGED <<readerVars, lifeVars, pairVars, m_files, m_idx, m_yielded, m_return>>

\* map_records(f, *files) is called with one to MaxSources sources
InitMap ==
    /\ m_files \in UNION {[1..k -> MapSources] : k \in 1..MaxSources}
    /\ m_idx = 0
    /\ m_pc = "loop"
    /\ m_item = <<>>
    /\ m_yielded = <<>>
    /\ m_fcalls = <<>>
    /\ m_results = <<>>
    /\ m_return = "unset"
    /\ kwargs = NoKwargs
    /\ utf8_handling = PolicyHandling(NoKwargs)
    /\ hide_utf8_warnings = PolicyHide(NoKwargs)
    /\ data = <<>>
    /\ kind = "unset"
    /\ pos = 0
    /\ target = "BufferedReader"
    /\ orig_open = TRUE
    /\ stream = "unset"
    /\ pc = "normalize"
    /\ ReaderFresh
    /\ PairIdle

NextMap ==
    \/ Map_loop
    \/ m_pc = "iter" /\ Ctor_normalize
    \/ m_pc = "iter" /\ Ctor_close
    \/ \E ok \in BOOLEAN : m_pc = "iter" /\ Ctor_reopen(ok)
    \/ Map_ctor_raised
    \/ \E accepted \in BOOLEAN : Map_next(accepted)
    \/ \E res \in FResults : Map_apply(res)

SpecMap == InitMap /\ [][NextMap]_vars

\* the items f has been called on, and the one map() holds for it
Served == m_fcalls \o m_item

\* the calls of f follow the sources, and within a source the stream
InOrder(cs) ==
    \A j \in 1..Len(cs) :
        /\ cs[j].src \in 1..Len(m_files)
        /\ cs[j].n \in 1..Len(RecordsOf(m_files[cs[j].src].data))
        /\ cs[j].chunk = RecordsOf(m_files[cs[j].src].data)[cs[j].n]
        /\ IF j > 1 /\ cs[j - 1].src = cs[j].src
           THEN cs[j].n = cs[j - 1].n + 1
           ELSE cs[j].n = 1 /\ (j > 1 => cs[j - 1].src < cs[j].src)

\* C19: map_records calls f once on every item a MARCReader over a source
\* yields, in stream order within the source (the calls made so far are
\* the items yielded so far, but for the one map() is about to pass on);
\* a source is turned to only when the one before is exhausted and f has
\* been called on all its items; what f returns is dropped and map_records
\* returns None.
C19_MapAppliesInOrder ==
    /\ [](/\ m_yielded = Served
          /\ (m_item # <<>>) <=> (m_pc = "apply")
          /\ InOrder(m_fcalls)
          /\ m_pc = "returned" =>
                /\ m_return = "None"
                /\ m_results = <<>>
                /\ m_idx = Len(m_files))
    /\ [][m_idx' # m_idx =>
            /\ m_fcalls = m_yielded
            /\ m_item = <<>>
            /\ m_idx > 0 => outcome = "StopIteration"]_vars

C19_Witness ==
    /\ m_pc = "returned"
    /\ Len(m_files) = 2
    /\ Len(m_fcalls) = 3
    /\ m_fcalls[1].src = 1 /\ m_fcalls[2].src = 1 /\ m_fcalls[3].src = 2
    /\ m_files[2].target = "TextFile"

----------------------------------------------------------------------------
(* DepreciatedMARCReader.__next__ run beside MARCReader.__next__: each      *)
(* reader has a handle of its own over the same bytes, and the two are      *)
(* called in step.  DepreciatedMARCReader.__init__ raises TypeError at its  *)
(* super() call (line 128), so its instance is one whose file_handle and    *)
(* policy attributes were set without it.                                   *)

\* lines 150-154: what the read of the length prefix decides
DepPrefixOutcome(f5) ==
    IF f5 = <<>> THEN "StopIteration"
    ELSE IF Len(f5) < PrefixLen THEN "RecordLengthInvalid"
    ELSE "proceed"

\* line 157: the size asked of the second read
DepRemainderSize(len) == len - PrefixLen

\* line 158
DepJoinChunk(f5, rest) == f5 \o rest

\* lines 159-164: the record is returned; an exception of the builder is
\* not caught
DepReturnOutcome(built) == built

\* lines 146-164 as a function of the handle (k, d, p), the policy and the
\* builder's choice
DepNextResultOf(k, d, p, handling, hide, accepted) ==
    LET r5 == Read(k, d, p, PrefixLen)
        f5 == r5.bytes
        pre == DepPrefixOutcome(f5)
        len == ParseInt(f5)
        rr == Read(k, d, r5.pos, DepRemainderSize(len.val))
        c == [type |-> "bytes", val |-> DepJoinChunk(f5, rr.bytes)]
    IN  IF pre # "proceed"
        THEN [outcome |-> pre, pos |-> r5.pos, chunk |-> NoChunk]
        ELSE IF ~len.ok
        THEN [outcome |-> "ValueError", pos |-> r5.pos, chunk |-> NoChunk]
        ELSE IF rr.raised
        THEN [outcome |-> "ValueError", pos |-> rr.pos, chunk |-> NoChunk]
        ELSE [outcome |-> DepReturnOutcome(Record(c, hide, handling, accepted)),
              pos |-> rr.pos, chunk |-> c]

\* one call of each reader; the builder judges each reader's chunk by itself
DepPair_next(accepted, b_accepted) ==
    /\ pc = "ready"
    /\ m_pc = "idle"
    /\ ReaderStep(accepted)
    /\ LET rb == DepNextResultOf(b_kind, data, b_pos, utf8_handling,
                                 hide_utf8_warnings, b_accepted)
       IN  /\ b_kind' = b_kind
           /\ b_pos' = rb.pos
           /\ b_outcome' = rb.outcome
           /\ b_chunk' = rb.chunk
    /\ UNCHANGED <<lifeVars, mapVars>>

\* the bytes both handles hold
DepStreams ==
    {Flatten(w) \o t : w \in SeqsUpTo({Rec(<<>>), Rec(<<65>>)}, MaxRecords),
                       t \in Tails \cup {<<48, 48, 48, 48, 51, 65, 66>>}}   \* "00003" "AB"

\* Both readers made: MARCReader over a binary handle or over the BytesIO of
\* a text payload, the other reader with a handle of either type.
InitDep ==
    /\ kwargs = NoKwargs
    /\ utf8_handling = PolicyHandling(kwargs)
    /\ hide_utf8_warnings = PolicyHide(kwargs)
    /\ data \in DepStreams
    /\ kind \in {"BufferedReader", "BytesIO"}
    /\ pos = 0
    /\ target = IF kind = "BytesIO" THEN "str" ELSE "BufferedReader"
    /\ orig_open = (kind = "BufferedReader")
    /\ stream = "open"
    /\ pc = "ready"
    /\ ReaderFresh
    /\ b_kind \in {"BufferedReader", "BytesIO"}
    /\ b_pos = 0
    /\ b_outcome = "NotCalled"
    /\ b_chunk = NoChunk
    /\ MapIdle

NextDep == \E accepted, b_accepted \in BOOLEAN : DepPair_next(accepted, b_accepted)

SpecDep == InitDep /\ [][NextDep]_vars

====
